---- MODULE Spec2Model ----
(***************************************************************************)
(* A model of the alexa_rust data model: the Response builder and its      *)
(* serde encoding (src/src/response.rs) and the Request decoder with its   *)
(* locale and intent classifiers (src/src/request.rs).                     *)
(*                                                                         *)
(* Rust values are modelled structurally: a struct is a record with the    *)
(* struct's field names, Option<T> is None / Some(v), a Vec is a sequence, *)
(* a HashMap<String, T> is a function whose domain is its key set.  A JSON *)
(* value is a tagged record (JNull, JBool, JNum, JStr, JArr, JObj); a JSON *)
(* object is a function from the member names that are present on the     *)
(* wire to their values, so "the key is omitted", "the key is null" and    *)
(* "the key is {}" are three different wire values.                        *)
(***************************************************************************)
EXTENDS Integers, Sequences, FiniteSets, TLC

VARIABLES
    res,     \* the Response owned by the builder chain
    last,    \* the operation that produced res, with its arguments
    input,   \* the JSON text last handed to serde_json::from_str::<Request>
    result   \* None before the decode, then Some of what it returned: Err or Ok(Request)

vars == <<res, last, input, result>>

(***************************************************************************)
(* Bounds of the model.                                                    *)
(***************************************************************************)
\* the longest directive list a modelled builder chain grows
MaxDirectives == 2
\* how many members are removed at once from the full request envelope
MaxMissing == 2

(***************************************************************************)
(* Rust's Option and Result, and JSON values.                              *)
(***************************************************************************)
None == [some |-> FALSE]
Some(v) == [some |-> TRUE, val |-> v]

Err == [ok |-> FALSE]
Ok(v) == [ok |-> TRUE, val |-> v]

JNull == [t |-> "null"]
JBool(b) == [t |-> "bool", b |-> b]
JNum(n) == [t |-> "num", n |-> n]
JStr(s) == [t |-> "str", s |-> s]
JArr(a) == [t |-> "arr", a |-> a]
JObj(o) == [t |-> "obj", o |-> o]

\* the JSON object j has a member named k
Has(j, k) == j.t = "obj" /\ k \in DOMAIN j.o

\* HashMap::new and HashMap::insert: insert replaces the value of a key that
\* is present and adds the key otherwise
HashMap_new == << >>
HashMap_insert(h, key, val) ==
    [k \in (DOMAIN h) \cup {key} |-> IF k = key THEN val ELSE h[k]]

(***************************************************************************)
(* The strings the modelled callers pass in.                               *)
(***************************************************************************)
Strings == {"a", "b"}
AttrKeys == {"k1", "k2"}
AttrVals == {"a", "b"}
BoolOptions == {None, Some(TRUE), Some(FALSE)}

(***************************************************************************)
(* response.rs: Version, SpeechType, PlayBehavior, CardType and their      *)
(* Display implementations.                                                *)
(***************************************************************************)
\* Version_to_string that writes the major number only
Version_to_string_major(v) == CASE v = "V1_0" -> "1"

Version_to_string(v) == CASE v = "V1_0" -> "1.0"

SpeechType_to_string(t) ==
    CASE t = "Plain" -> "PlainText"
      [] t = "Ssml" -> "SSML"

PlayBehaviors == {"Enqueue", "ReplaceAll", "ReplaceEnqueued"}

PlayBehavior_to_string(b) ==
    CASE b = "Enqueue" -> "ENQUEUE"
      [] b = "ReplaceAll" -> "REPLACE_ALL"
      [] b = "ReplaceEnqueued" -> "REPLACE_ENQUEUED"

CardType_to_string(t) ==
    CASE t = "Simple" -> "Simple"
      [] t = "Standard" -> "Standard"
      [] t = "LinkAccount" -> "LinkAccount"
      [] t = "AskForPermission" -> "AskForPermissonConsent"

(***************************************************************************)
(* response.rs: Speech.                                                    *)
(***************************************************************************)
Speech_plain(s) ==
    [speech_type |-> SpeechType_to_string("Plain"),
     text |-> Some(s),
     ssml |-> None,
     play_behavior |-> None]

\* Speech_ssml with the payload stored in the field of the other variant
Speech_ssml_into_text(s) ==
    [speech_type |-> SpeechType_to_string("Ssml"),
     text |-> Some(s),
     ssml |-> None,
     play_behavior |-> None]

Speech_ssml(s) ==
    [speech_type |-> SpeechType_to_string("Ssml"),
     text |-> None,
     ssml |-> Some(s),
     play_behavior |-> None]

Speech_play_behavior(self, behavior) ==
    [self EXCEPT !.play_behavior = Some(PlayBehavior_to_string(behavior))]

(***************************************************************************)
(* response.rs: Image and Card.                                            *)
(***************************************************************************)
Image_default == [small_image_url |-> None, large_image_url |-> None]
Image_new == Image_default
Image_small_image_url(self, url) == [self EXCEPT !.small_image_url = Some(url)]
Image_large_image_url(self, url) == [self EXCEPT !.large_image_url = Some(url)]

\* Card_simple with the title stored as the content too
Card_simple_title_as_content(title, text) ==
    [card_type |-> CardType_to_string("Simple"),
     title |-> Some(title),
     content |-> Some(title),
     text |-> None,
     image |-> None,
     permissions |-> None]

Card_simple(title, text) ==
    [card_type |-> CardType_to_string("Simple"),
     title |-> Some(title),
     content |-> Some(text),
     text |-> None,
     image |-> None,
     permissions |-> None]

Card_standard(title, text, image) ==
    [card_type |-> CardType_to_string("Standard"),
     title |-> Some(title),
     content |-> None,
     text |-> Some(text),
     image |-> Some(image),
     permissions |-> None]

Card_link_account ==
    [card_type |-> CardType_to_string("LinkAccount"),
     title |-> None,
     content |-> None,
     text |-> None,
     image |-> None,
     permissions |-> None]

Card_ask_for_permission(permissions) ==
    [card_type |-> CardType_to_string("AskForPermission"),
     title |-> None,
     content |-> None,
     text |-> None,
     image |-> None,
     permissions |-> Some(permissions)]

(***************************************************************************)
(* response.rs: the directive union and the structs it carries.            *)
(***************************************************************************)
AlexaPresentationHTMLStartDirectiveRequest_new_with_headers(uri, headers) ==
    [uri |-> uri, method |-> "GET", headers |-> headers]

AlexaPresentationHTMLStartDirectiveRequest_new(uri) ==
    AlexaPresentationHTMLStartDirectiveRequest_new_with_headers(uri, HashMap_new)

AlexaPresentationHTMLStartDirectiveConfiguration_new(timeout_in_seconds) ==
    [timeout_in_seconds |-> Some(timeout_in_seconds)]

AlexaPresentationHTMLStartDirective_new(data, request, configuration, transformers) ==
    [data |-> data,
     request |-> request,
     configuration |-> configuration,
     transformers |-> transformers]

\* the enum Directive: the variant name and the struct the variant carries
Directive_AlexaPresentationHTMLStartDirective(d) ==
    [variant |-> "AlexaPresentationHTMLStartDirective", inner |-> d]

(***************************************************************************)
(* response.rs: the Response builder.                                      *)
(***************************************************************************)
Response_new(should_end) ==
    [version |-> Version_to_string("V1_0"),
     session_attributes |-> None,
     body |-> [output_speech |-> None,
               card |-> None,
               reprompt |-> None,
               should_end_session |-> should_end,
               directives |-> << >>]]

\* Response_speech that also resets the card
Response_speech_drops_card(self, speech) ==
    [self EXCEPT !.body.output_speech = Some(speech), !.body.card = None]

Response_speech(self, speech) ==
    [self EXCEPT !.body.output_speech = Some(speech)]

Response_card(self, card) ==
    [self EXCEPT !.body.card = Some(card)]

Response_simple(title, text) ==
    Response_speech(
        Response_card(Response_new(Some(TRUE)), Card_simple(title, text)),
        Speech_plain(text))

Response_new_simple(title, text) == Response_simple(title, text)

Response_end == Response_new(Some(TRUE))

\* Response_add_attribute that starts a new map on every call
Response_add_attribute_fresh_map(self, key, val) ==
    [self EXCEPT !.session_attributes = Some(HashMap_insert(HashMap_new, key, val))]

Response_add_attribute(self, key, val) ==
    IF self.session_attributes.some
    THEN [self EXCEPT !.session_attributes =
              Some(HashMap_insert(self.session_attributes.val, key, val))]
    ELSE [self EXCEPT !.session_attributes =
              Some(HashMap_insert(HashMap_new, key, val))]

\* Response_add_directive that puts the directive at the front
Response_add_directive_at_front(self, directive) ==
    [self EXCEPT !.body.directives = <<directive>> \o self.body.directives]

Response_add_directive(self, directive) ==
    [self EXCEPT !.body.directives = Append(self.body.directives, directive)]

(***************************************************************************)
(* response.rs: #[derive(Serialize)].  A field is written under its serde  *)
(* rename; a field with skip_serializing_if is left out of the object when *)
(* the named predicate holds of it, and written otherwise.                 *)
(***************************************************************************)
Option_is_none(o) == ~o.some
Vec_is_empty(v) == Len(v) = 0
HashMap_is_empty(h) == DOMAIN h = {}

\* HashMap<String, String>: one member per entry
StringMap_serialize(h) == JObj([k \in DOMAIN h |-> JStr(h[k])])

\* Vec<String>
StringVec_serialize(v) == JArr([i \in 1..Len(v) |-> JStr(v[i])])

Speech_serialize(s) ==
    LET keys == {"type"}
                \cup (IF Option_is_none(s.text) THEN {} ELSE {"text"})
                \cup (IF Option_is_none(s.ssml) THEN {} ELSE {"ssml"})
                \cup (IF Option_is_none(s.play_behavior) THEN {} ELSE {"playBehavior"})
    IN JObj([k \in keys |->
               CASE k = "type" -> JStr(s.speech_type)
                 [] k = "text" -> JStr(s.text.val)
                 [] k = "ssml" -> JStr(s.ssml.val)
                 [] k = "playBehavior" -> JStr(s.play_behavior.val)])

Image_serialize(i) ==
    LET keys == (IF Option_is_none(i.small_image_url) THEN {} ELSE {"smallImageUrl"})
                \cup (IF Option_is_none(i.large_image_url) THEN {} ELSE {"largeImageUrl"})
    IN JObj([k \in keys |->
               CASE k = "smallImageUrl" -> JStr(i.small_image_url.val)
                 [] k = "largeImageUrl" -> JStr(i.large_image_url.val)])

Card_serialize(c) ==
    LET keys == {"type"}
                \cup (IF Option_is_none(c.title) THEN {} ELSE {"title"})
                \cup (IF Option_is_none(c.content) THEN {} ELSE {"content"})
                \cup (IF Option_is_none(c.text) THEN {} ELSE {"text"})
                \cup (IF Option_is_none(c.image) THEN {} ELSE {"image"})
                \cup (IF Option_is_none(c.permissions) THEN {} ELSE {"permissions"})
    IN JObj([k \in keys |->
               CASE k = "type" -> JStr(c.card_type)
                 [] k = "title" -> JStr(c.title.val)
                 [] k = "content" -> JStr(c.content.val)
                 [] k = "text" -> JStr(c.text.val)
                 [] k = "image" -> Image_serialize(c.image.val)
                 [] k = "permissions" -> StringVec_serialize(c.permissions.val)])

Reprompt_serialize(r) ==
    JObj([k \in {"outputSpeech"} |-> Speech_serialize(r.output_speech)])

AlexaPresentationHTMLStartDirectiveTransformerType_serialize(t) ==
    CASE t = "SsmlToSpeech" -> JStr("ssmlToSpeech")
      [] t = "TextToSpeech" -> JStr("textToSpeech")

AlexaPresentationHTMLStartDirectiveTransformer_serialize(t) ==
    LET keys == {"inputPath", "transformer"}
                \cup (IF Option_is_none(t.output_name) THEN {} ELSE {"outputName"})
    IN JObj([k \in keys |->
               CASE k = "inputPath" -> JStr(t.input_path)
                 [] k = "outputName" -> JStr(t.output_name.val)
                 [] k = "transformer" ->
                        AlexaPresentationHTMLStartDirectiveTransformerType_serialize(
                            t.transformer)])

AlexaPresentationHTMLStartDirectiveConfiguration_serialize(c) ==
    LET keys == IF Option_is_none(c.timeout_in_seconds) THEN {} ELSE {"timeoutInSeconds"}
    IN JObj([k \in keys |->
               CASE k = "timeoutInSeconds" -> JNum(c.timeout_in_seconds.val)])

AlexaPresentationHTMLStartDirectiveRequest_serialize(r) ==
    LET keys == {"uri", "method"}
                \cup (IF HashMap_is_empty(r.headers) THEN {} ELSE {"headers"})
    IN JObj([k \in keys |->
               CASE k = "uri" -> JStr(r.uri)
                 [] k = "method" -> JStr(r.method)
                 [] k = "headers" -> StringMap_serialize(r.headers)])

\* the members of the struct a directive carries, before the tag is added
AlexaPresentationHTMLStartDirective_serialize(d) ==
    LET keys == {"request", "configuration"}
                \cup (IF HashMap_is_empty(d.data) THEN {} ELSE {"data"})
                \cup (IF Vec_is_empty(d.transformers) THEN {} ELSE {"transformers"})
    IN JObj([k \in keys |->
               CASE k = "data" -> StringMap_serialize(d.data)
                 [] k = "request" ->
                        AlexaPresentationHTMLStartDirectiveRequest_serialize(d.request)
                 [] k = "configuration" ->
                        AlexaPresentationHTMLStartDirectiveConfiguration_serialize(
                            d.configuration)
                 [] k = "transformers" ->
                        JArr([i \in 1..Len(d.transformers) |->
                                AlexaPresentationHTMLStartDirectiveTransformer_serialize(
                                    d.transformers[i])])])

\* the literal serde writes into the tag member for a variant
Directive_tag(variant) ==
    CASE variant = "AlexaPresentationHTMLStartDirective" -> "Alexa.Presentation.HTML.Start"

\* #[serde(tag = "type")]: the variant's struct, with the member "type" added
Directive_serialize(d) ==
    LET inner == AlexaPresentationHTMLStartDirective_serialize(d.inner).o
    IN JObj([k \in (DOMAIN inner) \cup {"type"} |->
               IF k = "type" THEN JStr(Directive_tag(d.variant)) ELSE inner[k]])

ResBody_serialize(b) ==
    LET keys == (IF Option_is_none(b.output_speech) THEN {} ELSE {"outputSpeech"})
                \cup (IF Option_is_none(b.card) THEN {} ELSE {"card"})
                \cup (IF Option_is_none(b.reprompt) THEN {} ELSE {"reprompt"})
                \cup (IF Option_is_none(b.should_end_session) THEN {} ELSE {"shouldEndSession"})
                \cup (IF Vec_is_empty(b.directives) THEN {} ELSE {"directives"})
    IN JObj([k \in keys |->
               CASE k = "outputSpeech" -> Speech_serialize(b.output_speech.val)
                 [] k = "card" -> Card_serialize(b.card.val)
                 [] k = "reprompt" -> Reprompt_serialize(b.reprompt.val)
                 [] k = "shouldEndSession" -> JBool(b.should_end_session.val)
                 [] k = "directives" ->
                        JArr([i \in 1..Len(b.directives) |->
                                Directive_serialize(b.directives[i])])])

Response_serialize(r) ==
    LET keys == {"version", "response"}
                \cup (IF Option_is_none(r.session_attributes) THEN {}
                      ELSE {"sessionAttributes"})
    IN JObj([k \in keys |->
               CASE k = "version" -> JStr(r.version)
                 [] k = "sessionAttributes" -> StringMap_serialize(r.session_attributes.val)
                 [] k = "response" -> ResBody_serialize(r.body)])

(***************************************************************************)
(* #[derive(Deserialize)] as serde_json runs it on a JSON value.  A struct  *)
(* is read from a JSON object: a member the struct does not name is        *)
(* skipped; a field of type Option<T> whose member is missing or null is   *)
(* None; any other field whose member is missing is the error "missing     *)
(* field" (no field of either file carries #[serde(default)]); a member of *)
(* the wrong JSON type is an error; an error anywhere fails the whole      *)
(* decode.  A JSON value that is not an object is never read as a struct   *)
(* here (serde also reads a struct from an array, by position; the inputs  *)
(* of this model hold no array where a struct is expected).                *)
(***************************************************************************)
String_deserialize(v) == IF v.t = "str" THEN Ok(v.s) ELSE Err

bool_deserialize(v) == IF v.t = "bool" THEN Ok(v.b) ELSE Err

\* u32 and u64 take a JSON number that is a non-negative integer in range; the
\* numbers of this model are far below 2^32, so only the sign is tested
u32_deserialize(v) == IF v.t = "num" /\ v.n >= 0 THEN Ok(v.n) ELSE Err

u64_deserialize(v) == IF v.t = "num" /\ v.n >= 0 THEN Ok(v.n) ELSE Err

\* the member k of the object j (null when j has none)
Member(j, k) == IF Has(j, k) THEN j.o[k] ELSE JNull

\* Vec<T> and HashMap<String, T>: rs holds what T's decoder returned for each
\* element; one error fails the whole collection
Collect(rs) ==
    IF \A k \in DOMAIN rs : rs[k].ok
    THEN Ok([k \in DOMAIN rs |-> rs[k].val])
    ELSE Err

\* a field that is not optional: its member must be present; r is what the
\* field type's decoder returns for the member
Field(j, k, r) == IF Has(j, k) THEN r ELSE Err

\* a field of type Option<T>: a missing or null member is None; r is what T's
\* decoder returns for the member
OptionField(j, k, r) ==
    IF ~Has(j, k) \/ Member(j, k).t = "null" THEN Ok(None)
    ELSE IF r.ok THEN Ok(Some(r.val)) ELSE Err

StringMap_deserialize(v) ==
    IF v.t # "obj" THEN Err
    ELSE Collect([k \in DOMAIN v.o |-> String_deserialize(v.o[k])])

StringVec_deserialize(v) ==
    IF v.t # "arr" THEN Err
    ELSE Collect([i \in 1..Len(v.a) |-> String_deserialize(v.a[i])])

(***************************************************************************)
(* response.rs: #[derive(Deserialize)].                                    *)
(***************************************************************************)
Speech_deserialize(j) ==
    IF j.t # "obj" THEN Err
    ELSE LET speech_type == Field(j, "type", String_deserialize(Member(j, "type")))
             text == OptionField(j, "text", String_deserialize(Member(j, "text")))
             ssml == OptionField(j, "ssml", String_deserialize(Member(j, "ssml")))
             play_behavior ==
                 OptionField(j, "playBehavior",
                       String_deserialize(Member(j, "playBehavior")))
         IN IF speech_type.ok /\ text.ok /\ ssml.ok /\ play_behavior.ok
            THEN Ok([speech_type |-> speech_type.val,
                     text |-> text.val,
                     ssml |-> ssml.val,
                     play_behavior |-> play_behavior.val])
            ELSE Err

Image_deserialize(j) ==
    IF j.t # "obj" THEN Err
    ELSE LET small_image_url ==
                 OptionField(j, "smallImageUrl",
                       String_deserialize(Member(j, "smallImageUrl")))
             large_image_url ==
                 OptionField(j, "largeImageUrl",
                       String_deserialize(Member(j, "largeImageUrl")))
         IN IF small_image_url.ok /\ large_image_url.ok
            THEN Ok([small_image_url |-> small_image_url.val,
                     large_image_url |-> large_image_url.val])
            ELSE Err

Card_deserialize(j) ==
    IF j.t # "obj" THEN Err
    ELSE LET card_type == Field(j, "type", String_deserialize(Member(j, "type")))
             title == OptionField(j, "title", String_deserialize(Member(j, "title")))
             content == OptionField(j, "content", String_deserialize(Member(j, "content")))
             text == OptionField(j, "text", String_deserialize(Member(j, "text")))
             image == OptionField(j, "image", Image_deserialize(Member(j, "image")))
             permissions ==
                 OptionField(j, "permissions",
                       StringVec_deserialize(Member(j, "permissions")))
         IN IF card_type.ok /\ title.ok /\ content.ok /\ text.ok /\ image.ok
               /\ permissions.ok
            THEN Ok([card_type |-> card_type.val,
                     title |-> title.val,
                     content |-> content.val,
                     text |-> text.val,
                     image |-> image.val,
                     permissions |-> permissions.val])
            ELSE Err

Reprompt_deserialize(j) ==
    IF j.t # "obj" THEN Err
    ELSE LET output_speech ==
                 Field(j, "outputSpeech",
                       Speech_deserialize(Member(j, "outputSpeech")))
         IN IF output_speech.ok
            THEN Ok([output_speech |-> output_speech.val])
            ELSE Err

AlexaPresentationHTMLStartDirectiveTransformerType_deserialize(v) ==
    IF v.t # "str" THEN Err
    ELSE CASE v.s = "ssmlToSpeech" -> Ok("SsmlToSpeech")
           [] v.s = "textToSpeech" -> Ok("TextToSpeech")
           [] OTHER -> Err

AlexaPresentationHTMLStartDirectiveTransformer_deserialize(j) ==
    IF j.t # "obj" THEN Err
    ELSE LET input_path == Field(j, "inputPath", String_deserialize(Member(j, "inputPath")))
             output_name ==
                 OptionField(j, "outputName",
                       String_deserialize(Member(j, "outputName")))
             transformer ==
                 Field(j, "transformer",
                       AlexaPresentationHTMLStartDirectiveTransformerType_deserialize(
                           Member(j, "transformer")))
         IN IF input_path.ok /\ output_name.ok /\ transformer.ok
            THEN Ok([input_path |-> input_path.val,
                     output_name |-> output_name.val,
                     transformer |-> transformer.val])
            ELSE Err

AlexaPresentationHTMLStartDirectiveTransformerVec_deserialize(v) ==
    IF v.t # "arr" THEN Err
    ELSE Collect([i \in 1..Len(v.a) |->
                     AlexaPresentationHTMLStartDirectiveTransformer_deserialize(v.a[i])])

AlexaPresentationHTMLStartDirectiveConfiguration_deserialize(j) ==
    IF j.t # "obj" THEN Err
    ELSE LET timeout_in_seconds ==
                 OptionField(j, "timeoutInSeconds",
                       u32_deserialize(Member(j, "timeoutInSeconds")))
         IN IF timeout_in_seconds.ok
            THEN Ok([timeout_in_seconds |-> timeout_in_seconds.val])
            ELSE Err

AlexaPresentationHTMLStartDirectiveRequest_deserialize(j) ==
    IF j.t # "obj" THEN Err
    ELSE LET uri == Field(j, "uri", String_deserialize(Member(j, "uri")))
             method == Field(j, "method", String_deserialize(Member(j, "method")))
             headers == Field(j, "headers", StringMap_deserialize(Member(j, "headers")))
         IN IF uri.ok /\ method.ok /\ headers.ok
            THEN Ok([uri |-> uri.val, method |-> method.val, headers |-> headers.val])
            ELSE Err

AlexaPresentationHTMLStartDirective_deserialize(j) ==
    IF j.t # "obj" THEN Err
    ELSE LET data == Field(j, "data", StringMap_deserialize(Member(j, "data")))
             request ==
                 Field(j, "request",
                       AlexaPresentationHTMLStartDirectiveRequest_deserialize(Member(j, "request")))
             configuration ==
                 Field(j, "configuration",
                       AlexaPresentationHTMLStartDirectiveConfiguration_deserialize(
                           Member(j, "configuration")))
             transformers ==
                 Field(j, "transformers",
                       AlexaPresentationHTMLStartDirectiveTransformerVec_deserialize(
                           Member(j, "transformers")))
         IN IF data.ok /\ request.ok /\ configuration.ok /\ transformers.ok
            THEN Ok([data |-> data.val,
                     request |-> request.val,
                     configuration |-> configuration.val,
                     transformers |-> transformers.val])
            ELSE Err

\* Directive_deserialize that reads the variant's struct whatever the tag says
Directive_deserialize_any_tag(j) ==
    IF j.t # "obj" THEN Err
    ELSE LET rest == JObj([k \in (DOMAIN j.o) \ {"type"} |-> j.o[k]])
             inner == AlexaPresentationHTMLStartDirective_deserialize(rest)
         IN IF inner.ok
            THEN Ok(Directive_AlexaPresentationHTMLStartDirective(inner.val))
            ELSE Err

\* #[serde(tag = "type")]: the member "type" picks the variant, the other
\* members are the variant's struct
Directive_deserialize(j) ==
    IF j.t # "obj" THEN Err
    ELSE LET tag == Field(j, "type", String_deserialize(Member(j, "type")))
         IN IF ~tag.ok THEN Err
            ELSE IF tag.val = "Alexa.Presentation.HTML.Start"
            THEN LET rest == JObj([k \in (DOMAIN j.o) \ {"type"} |-> j.o[k]])
                     inner == AlexaPresentationHTMLStartDirective_deserialize(rest)
                 IN IF inner.ok
                    THEN Ok(Directive_AlexaPresentationHTMLStartDirective(inner.val))
                    ELSE Err
            ELSE Err

DirectiveVec_deserialize(v) ==
    IF v.t # "arr" THEN Err
    ELSE Collect([i \in 1..Len(v.a) |-> Directive_deserialize(v.a[i])])

ResBody_deserialize(j) ==
    IF j.t # "obj" THEN Err
    ELSE LET output_speech ==
                 OptionField(j, "outputSpeech",
                       Speech_deserialize(Member(j, "outputSpeech")))
             card == OptionField(j, "card", Card_deserialize(Member(j, "card")))
             reprompt ==
                 OptionField(j, "reprompt",
                       Reprompt_deserialize(Member(j, "reprompt")))
             should_end_session ==
                 OptionField(j, "shouldEndSession",
                       bool_deserialize(Member(j, "shouldEndSession")))
             directives ==
                 Field(j, "directives",
                       DirectiveVec_deserialize(Member(j, "directives")))
         IN IF output_speech.ok /\ card.ok /\ reprompt.ok /\ should_end_session.ok
               /\ directives.ok
            THEN Ok([output_speech |-> output_speech.val,
                     card |-> card.val,
                     reprompt |-> reprompt.val,
                     should_end_session |-> should_end_session.val,
                     directives |-> directives.val])
            ELSE Err

Response_deserialize(j) ==
    IF j.t # "obj" THEN Err
    ELSE LET version == Field(j, "version", String_deserialize(Member(j, "version")))
             session_attributes ==
                 OptionField(j, "sessionAttributes",
                       StringMap_deserialize(Member(j, "sessionAttributes")))
             body == Field(j, "response", ResBody_deserialize(Member(j, "response")))
         IN IF version.ok /\ session_attributes.ok /\ body.ok
            THEN Ok([version |-> version.val,
                     session_attributes |-> session_attributes.val,
                     body |-> body.val])
            ELSE Err

(***************************************************************************)
(* request.rs: #[derive(Deserialize)].                                     *)
(***************************************************************************)
Application_deserialize(j) ==
    IF j.t # "obj" THEN Err
    ELSE LET application_id ==
                 Field(j, "applicationId",
                       String_deserialize(Member(j, "applicationId")))
         IN IF application_id.ok
            THEN Ok([application_id |-> application_id.val])
            ELSE Err

User_deserialize(j) ==
    IF j.t # "obj" THEN Err
    ELSE LET user_id == Field(j, "userId", String_deserialize(Member(j, "userId")))
             access_token ==
                 OptionField(j, "accessToken",
                       String_deserialize(Member(j, "accessToken")))
         IN IF user_id.ok /\ access_token.ok
            THEN Ok([user_id |-> user_id.val, access_token |-> access_token.val])
            ELSE Err

Device_deserialize(j) ==
    IF j.t # "obj" THEN Err
    ELSE LET device_id == Field(j, "deviceId", String_deserialize(Member(j, "deviceId")))
         IN IF device_id.ok THEN Ok([device_id |-> device_id.val]) ELSE Err

Session_deserialize(j) ==
    IF j.t # "obj" THEN Err
    ELSE LET new == Field(j, "new", bool_deserialize(Member(j, "new")))
             session_id == Field(j, "sessionId", String_deserialize(Member(j, "sessionId")))
             attributes ==
                 OptionField(j, "attributes",
                       StringMap_deserialize(Member(j, "attributes")))
             application ==
                 Field(j, "application",
                       Application_deserialize(Member(j, "application")))
             user == Field(j, "user", User_deserialize(Member(j, "user")))
         IN IF new.ok /\ session_id.ok /\ attributes.ok /\ application.ok /\ user.ok
            THEN Ok([new |-> new.val,
                     session_id |-> session_id.val,
                     attributes |-> attributes.val,
                     application |-> application.val,
                     user |-> user.val])
            ELSE Err

Value_deserialize(j) ==
    IF j.t # "obj" THEN Err
    ELSE LET name == Field(j, "name", String_deserialize(Member(j, "name")))
             id == Field(j, "id", String_deserialize(Member(j, "id")))
         IN IF name.ok /\ id.ok THEN Ok([name |-> name.val, id |-> id.val]) ELSE Err

ValueVec_deserialize(v) ==
    IF v.t # "arr" THEN Err
    ELSE Collect([i \in 1..Len(v.a) |-> Value_deserialize(v.a[i])])

Status_deserialize(j) ==
    IF j.t # "obj" THEN Err
    ELSE LET code == Field(j, "code", String_deserialize(Member(j, "code")))
         IN IF code.ok THEN Ok([code |-> code.val]) ELSE Err

ResolutionsPerAuthority_deserialize(j) ==
    IF j.t # "obj" THEN Err
    ELSE LET authority == Field(j, "authority", String_deserialize(Member(j, "authority")))
             status == Field(j, "status", Status_deserialize(Member(j, "status")))
             values == Field(j, "values", ValueVec_deserialize(Member(j, "values")))
         IN IF authority.ok /\ status.ok /\ values.ok
            THEN Ok([authority |-> authority.val,
                     status |-> status.val,
                     values |-> values.val])
            ELSE Err

ResolutionsPerAuthorityVec_deserialize(v) ==
    IF v.t # "arr" THEN Err
    ELSE Collect([i \in 1..Len(v.a) |-> ResolutionsPerAuthority_deserialize(v.a[i])])

Resolution_deserialize(j) ==
    IF j.t # "obj" THEN Err
    ELSE LET resolutions_per_authority ==
                 Field(j, "resolutionsPerAuthority",
                       ResolutionsPerAuthorityVec_deserialize(Member(j, "resolutionsPerAuthority")))
         IN IF resolutions_per_authority.ok
            THEN Ok([resolutions_per_authority |-> resolutions_per_authority.val])
            ELSE Err

Slot_deserialize(j) ==
    IF j.t # "obj" THEN Err
    ELSE LET name == Field(j, "name", String_deserialize(Member(j, "name")))
             value == Field(j, "value", String_deserialize(Member(j, "value")))
             confirmation_status ==
                 Field(j, "confirmationStatus",
                       String_deserialize(Member(j, "confirmationStatus")))
             resolutions ==
                 OptionField(j, "resolutions",
                       Resolution_deserialize(Member(j, "resolutions")))
         IN IF name.ok /\ value.ok /\ confirmation_status.ok /\ resolutions.ok
            THEN Ok([name |-> name.val,
                     value |-> value.val,
                     confirmation_status |-> confirmation_status.val,
                     resolutions |-> resolutions.val])
            ELSE Err

SlotMap_deserialize(v) ==
    IF v.t # "obj" THEN Err
    ELSE Collect([k \in DOMAIN v.o |-> Slot_deserialize(v.o[k])])

Intent_deserialize(j) ==
    IF j.t # "obj" THEN Err
    ELSE LET name == Field(j, "name", String_deserialize(Member(j, "name")))
             confirmation_status ==
                 Field(j, "confirmationStatus",
                       String_deserialize(Member(j, "confirmationStatus")))
             slots == OptionField(j, "slots", SlotMap_deserialize(Member(j, "slots")))
         IN IF name.ok /\ confirmation_status.ok /\ slots.ok
            THEN Ok([name |-> name.val,
                     confirmation_status |-> confirmation_status.val,
                     slots |-> slots.val])
            ELSE Err

AudioPlayer_deserialize(j) ==
    IF j.t # "obj" THEN Err
    ELSE LET token == Field(j, "token", String_deserialize(Member(j, "token")))
             offset_in_milliseconds ==
                 Field(j, "offsetInMilliseconds",
                       u64_deserialize(Member(j, "offsetInMilliseconds")))
             player_activity ==
                 Field(j, "playerActivity",
                       String_deserialize(Member(j, "playerActivity")))
         IN IF token.ok /\ offset_in_milliseconds.ok /\ player_activity.ok
            THEN Ok([token |-> token.val,
                     offset_in_milliseconds |-> offset_in_milliseconds.val,
                     player_activity |-> player_activity.val])
            ELSE Err

System_deserialize(j) ==
    IF j.t # "obj" THEN Err
    ELSE LET api_access_token ==
                 Field(j, "apiAccessToken",
                       String_deserialize(Member(j, "apiAccessToken")))
             device == OptionField(j, "device", Device_deserialize(Member(j, "device")))
             application ==
                 OptionField(j, "application",
                       Application_deserialize(Member(j, "application")))
         IN IF api_access_token.ok /\ device.ok /\ application.ok
            THEN Ok([api_access_token |-> api_access_token.val,
                     device |-> device.val,
                     application |-> application.val])
            ELSE Err

Context_deserialize(j) ==
    IF j.t # "obj" THEN Err
    ELSE LET system == Field(j, "System", System_deserialize(Member(j, "System")))
             audio_player ==
                 OptionField(j, "AudioPlayer",
                       AudioPlayer_deserialize(Member(j, "AudioPlayer")))
         IN IF system.ok /\ audio_player.ok
            THEN Ok([system |-> system.val, audio_player |-> audio_player.val])
            ELSE Err

\* ReqBody_deserialize with a request id that is defaulted when its member is missing
ReqBody_deserialize_default_request_id(j) ==
    IF j.t # "obj" THEN Err
    ELSE LET reqtype == Field(j, "type", String_deserialize(Member(j, "type")))
             request_id == IF Has(j, "requestId")
                           THEN String_deserialize(j.o["requestId"])
                           ELSE Ok("")
             timestamp == Field(j, "timestamp", String_deserialize(Member(j, "timestamp")))
             locale == Field(j, "locale", String_deserialize(Member(j, "locale")))
             intent == OptionField(j, "intent", Intent_deserialize(Member(j, "intent")))
             reason == OptionField(j, "reason", String_deserialize(Member(j, "reason")))
             dialog_state ==
                 OptionField(j, "dialogState",
                       String_deserialize(Member(j, "dialogState")))
         IN IF reqtype.ok /\ request_id.ok /\ timestamp.ok /\ locale.ok /\ intent.ok
               /\ reason.ok /\ dialog_state.ok
            THEN Ok([reqtype |-> reqtype.val,
                     request_id |-> request_id.val,
                     timestamp |-> timestamp.val,
                     locale |-> locale.val,
                     intent |-> intent.val,
                     reason |-> reason.val,
                     dialog_state |-> dialog_state.val])
            ELSE Err

ReqBody_deserialize(j) ==
    IF j.t # "obj" THEN Err
    ELSE LET reqtype == Field(j, "type", String_deserialize(Member(j, "type")))
             request_id == Field(j, "requestId", String_deserialize(Member(j, "requestId")))
             timestamp == Field(j, "timestamp", String_deserialize(Member(j, "timestamp")))
             locale == Field(j, "locale", String_deserialize(Member(j, "locale")))
             intent == OptionField(j, "intent", Intent_deserialize(Member(j, "intent")))
             reason == OptionField(j, "reason", String_deserialize(Member(j, "reason")))
             dialog_state ==
                 OptionField(j, "dialogState",
                       String_deserialize(Member(j, "dialogState")))
         IN IF reqtype.ok /\ request_id.ok /\ timestamp.ok /\ locale.ok /\ intent.ok
               /\ reason.ok /\ dialog_state.ok
            THEN Ok([reqtype |-> reqtype.val,
                     request_id |-> request_id.val,
                     timestamp |-> timestamp.val,
                     locale |-> locale.val,
                     intent |-> intent.val,
                     reason |-> reason.val,
                     dialog_state |-> dialog_state.val])
            ELSE Err

Request_deserialize(j) ==
    IF j.t # "obj" THEN Err
    ELSE LET version == Field(j, "version", String_deserialize(Member(j, "version")))
             session == OptionField(j, "session", Session_deserialize(Member(j, "session")))
             body == Field(j, "request", ReqBody_deserialize(Member(j, "request")))
             context == Field(j, "context", Context_deserialize(Member(j, "context")))
         IN IF version.ok /\ session.ok /\ body.ok /\ context.ok
            THEN Ok([version |-> version.val,
                     session |-> session.val,
                     body |-> body.val,
                     context |-> context.val])
            ELSE Err

(***************************************************************************)
(* request.rs: Locale, IntentType and the accessors of Request.            *)
(***************************************************************************)
Locales ==
    {"Italian", "German", "AustralianEnglish", "CanadianEnglish", "BritishEnglish",
     "IndianEnglish", "AmericanEnglish", "Japanese", "Unknown"}

\* Locale_is_english without the arm for IndianEnglish
Locale_is_english_four_arms(self) ==
    CASE self = "AmericanEnglish" -> TRUE
      [] self = "AustralianEnglish" -> TRUE
      [] self = "CanadianEnglish" -> TRUE
      [] self = "BritishEnglish" -> TRUE
      [] OTHER -> FALSE

Locale_is_english(self) ==
    CASE self = "AmericanEnglish" -> TRUE
      [] self = "AustralianEnglish" -> TRUE
      [] self = "CanadianEnglish" -> TRUE
      [] self = "BritishEnglish" -> TRUE
      [] self = "IndianEnglish" -> TRUE
      [] OTHER -> FALSE

\* Locale_from with the arms of en-GB and en-IN exchanged
Locale_from_arms_exchanged(s) ==
    CASE s = "it-IT" -> "Italian"
      [] s = "de-DE" -> "German"
      [] s = "en-AU" -> "AustralianEnglish"
      [] s = "en-CA" -> "CanadianEnglish"
      [] s = "en-GB" -> "IndianEnglish"
      [] s = "en-IN" -> "BritishEnglish"
      [] s = "en-US" -> "AmericanEnglish"
      [] s = "ja-JP" -> "Japanese"
      [] OTHER -> "Unknown"

\* impl From<&str> for Locale
Locale_from(s) ==
    CASE s = "it-IT" -> "Italian"
      [] s = "de-DE" -> "German"
      [] s = "en-AU" -> "AustralianEnglish"
      [] s = "en-CA" -> "CanadianEnglish"
      [] s = "en-GB" -> "BritishEnglish"
      [] s = "en-IN" -> "IndianEnglish"
      [] s = "en-US" -> "AmericanEnglish"
      [] s = "ja-JP" -> "Japanese"
      [] OTHER -> "Unknown"

\* impl From<String> for Locale
Locale_from_String(s) == Locale_from(s)

Request_locale(self) == Locale_from(self.body.locale)

\* a variant of IntentType without a payload, and the variant User(String)
IntentType(variant) == [variant |-> variant]
IntentType_User(name) == [variant |-> "User", name |-> name]

\* Request_intent with the arms of ShuffleOff and ShuffleOn exchanged
Request_intent_shuffle_exchanged(self) ==
    IF self.body.intent.some
    THEN LET name == self.body.intent.val.name
         IN CASE name = "AMAZON.HelpIntent" -> IntentType("Help")
              [] name = "AMAZON.CancelIntent" -> IntentType("Cancel")
              [] name = "AMAZON.FallbackIntent" -> IntentType("Fallback")
              [] name = "AMAZON.LoopOffIntent" -> IntentType("LoopOff")
              [] name = "AMAZON.LoopOnIntent" -> IntentType("LoopOn")
              [] name = "AMAZON.NextIntent" -> IntentType("Next")
              [] name = "AMAZON.NoIntent" -> IntentType("No")
              [] name = "AMAZON.PauseIntent" -> IntentType("Pause")
              [] name = "AMAZON.PreviousIntent" -> IntentType("Previous")
              [] name = "AMAZON.RepeatIntent" -> IntentType("Repeat")
              [] name = "AMAZON.ResumeIntent" -> IntentType("Resume")
              [] name = "AMAZON.SelectIntent" -> IntentType("Select")
              [] name = "AMAZON.ShuffleOffIntent" -> IntentType("ShuffleOn")
              [] name = "AMAZON.ShuffleOnIntent" -> IntentType("ShuffleOff")
              [] name = "AMAZON.StartOverIntent" -> IntentType("StartOver")
              [] name = "AMAZON.StopIntent" -> IntentType("Stop")
              [] name = "AMAZON.YesIntent" -> IntentType("Yes")
              [] OTHER -> IntentType_User(name)
    ELSE IntentType("None")

Request_intent(self) ==
    IF self.body.intent.some
    THEN LET name == self.body.intent.val.name
         IN CASE name = "AMAZON.HelpIntent" -> IntentType("Help")
              [] name = "AMAZON.CancelIntent" -> IntentType("Cancel")
              [] name = "AMAZON.FallbackIntent" -> IntentType("Fallback")
              [] name = "AMAZON.LoopOffIntent" -> IntentType("LoopOff")
              [] name = "AMAZON.LoopOnIntent" -> IntentType("LoopOn")
              [] name = "AMAZON.NextIntent" -> IntentType("Next")
              [] name = "AMAZON.NoIntent" -> IntentType("No")
              [] name = "AMAZON.PauseIntent" -> IntentType("Pause")
              [] name = "AMAZON.PreviousIntent" -> IntentType("Previous")
              [] name = "AMAZON.RepeatIntent" -> IntentType("Repeat")
              [] name = "AMAZON.ResumeIntent" -> IntentType("Resume")
              [] name = "AMAZON.SelectIntent" -> IntentType("Select")
              [] name = "AMAZON.ShuffleOffIntent" -> IntentType("ShuffleOff")
              [] name = "AMAZON.ShuffleOnIntent" -> IntentType("ShuffleOn")
              [] name = "AMAZON.StartOverIntent" -> IntentType("StartOver")
              [] name = "AMAZON.StopIntent" -> IntentType("Stop")
              [] name = "AMAZON.YesIntent" -> IntentType("Yes")
              [] OTHER -> IntentType_User(name)
    ELSE IntentType("None")

(***************************************************************************)
(* The values the modelled callers hand to the builder.                    *)
(***************************************************************************)
SpeechInputs ==
    LET fresh == {Speech_plain(s) : s \in Strings} \cup {Speech_ssml(s) : s \in Strings}
        first == CHOOSE s \in Strings : TRUE
    IN fresh
       \cup {Speech_play_behavior(s, b) :
                 s \in {Speech_plain(first), Speech_ssml(first)}, b \in PlayBehaviors}

CardInputs ==
    {Card_simple(t, x) : t \in Strings, x \in Strings}
    \cup {Card_standard("a", "b",
              Image_large_image_url(Image_small_image_url(Image_new, "s.png"), "l.png")),
          Card_link_account,
          Card_ask_for_permission(<<"p">>)}

DirectiveInputs ==
    {Directive_AlexaPresentationHTMLStartDirective(
         AlexaPresentationHTMLStartDirective_new(
             HashMap_new,
             AlexaPresentationHTMLStartDirectiveRequest_new("u"),
             AlexaPresentationHTMLStartDirectiveConfiguration_new(30),
             << >>)),
     Directive_AlexaPresentationHTMLStartDirective(
         AlexaPresentationHTMLStartDirective_new(
             HashMap_insert(HashMap_new, "k1", "a"),
             AlexaPresentationHTMLStartDirectiveRequest_new_with_headers(
                 "v", HashMap_insert(HashMap_new, "h", "x")),
             [timeout_in_seconds |-> None],
             <<[input_path |-> "p", output_name |-> Some("o"),
                transformer |-> "TextToSpeech"]>>))}

(***************************************************************************)
(* The builder chain as a state machine.  A chain starts from one of the   *)
(* constructors and applies speech, card, add_attribute and add_directive  *)
(* in any order.  last records the call just made: its name, its           *)
(* arguments, and what it overwrote (for add_attribute the value           *)
(* HashMap::insert returns, which the code discards).                      *)
(***************************************************************************)
InitBuild ==
    /\ \/ \E x \in BoolOptions :
            /\ res = Response_new(x)
            /\ last = [op |-> "new", should_end |-> x]
       \/ \E t \in Strings, x \in Strings :
            /\ res = Response_simple(t, x)
            /\ last = [op |-> "simple", title |-> t, text |-> x]
       \/ \E t \in Strings, x \in Strings :
            /\ res = Response_new_simple(t, x)
            /\ last = [op |-> "new_simple", title |-> t, text |-> x]
       \/ /\ res = Response_end
          /\ last = [op |-> "end"]
    /\ input = JNull
    /\ result = None

Speech(s) ==
    /\ res' = Response_speech(res, s)
    /\ last' = [op |-> "speech", speech |-> s,
                replaced |-> res.body.output_speech.some]
    /\ UNCHANGED <<input, result>>

Card(c) ==
    /\ res' = Response_card(res, c)
    /\ last' = [op |-> "card", card |-> c, replaced |-> res.body.card.some]
    /\ UNCHANGED <<input, result>>

AddAttribute(k, v) ==
    /\ res' = Response_add_attribute(res, k, v)
    /\ last' = [op |-> "add_attribute", key |-> k, val |-> v,
                old |-> IF res.session_attributes.some
                           /\ k \in DOMAIN res.session_attributes.val
                        THEN Some(res.session_attributes.val[k])
                        ELSE None]
    /\ UNCHANGED <<input, result>>

AddDirective(d) ==
    /\ Len(res.body.directives) < MaxDirectives
    /\ res' = Response_add_directive(res, d)
    /\ last' = [op |-> "add_directive", directive |-> d]
    /\ UNCHANGED <<input, result>>

NextBuild ==
    \/ \E s \in SpeechInputs : Speech(s)
    \/ \E c \in CardInputs : Card(c)
    \/ \E k \in AttrKeys, v \in AttrVals : AddAttribute(k, v)
    \/ \E d \in DirectiveInputs : AddDirective(d)

Spec == InitBuild /\ [][NextBuild]_vars

(***************************************************************************)
(* The same chain, where a Response may also come from                     *)
(* serde_json::from_str::<Response> (Response derives Deserialize and      *)
(* Clone and is public): a caller that obtains Ok(r) owns the Response r   *)
(* and may go on building from it; on Err the caller has no new Response.  *)
(***************************************************************************)
JSet(j, k, v) == JObj([x \in (DOMAIN j.o) \cup {k} |-> IF x = k THEN v ELSE j.o[x]])
JDel(j, k) == JObj([x \in (DOMAIN j.o) \ {k} |-> j.o[x]])

\* a response with every part set, whose directive has no empty member
FullResponse ==
    LET d == CHOOSE x \in DirectiveInputs : ~HashMap_is_empty(x.inner.data)
    IN Response_add_directive(
           Response_add_attribute(Response_simple("a", "b"), "k1", "a"), d)

ResponseWireInputs ==
    LET w == Response_serialize(FullResponse)
        body == w.o["response"]
        dir == body.o["directives"].a[1]
    IN {w,
        JSet(w, "sessionAttributes", JObj(<< >>)),
        JSet(w, "sessionAttributes", JNull),
        JDel(w, "sessionAttributes"),
        JSet(w, "response", JSet(body, "directives", JArr(<< >>))),
        JSet(w, "response", JDel(body, "directives")),
        JSet(w, "response",
             JSet(body, "directives", JArr(<<JSet(dir, "type", JStr("Unknown"))>>))),
        JSet(w, "response", JSet(body, "directives", JArr(<<JDel(dir, "type")>>))),
        JDel(w, "version")}

\* what from_str returns for each of these inputs
ResponseWireResults == [w \in ResponseWireInputs |-> Response_deserialize(w)]

FromStrOk(w) ==
    /\ ResponseWireResults[w].ok
    /\ res' = ResponseWireResults[w].val
    /\ last' = [op |-> "from_str", wire |-> w]
    /\ UNCHANGED <<input, result>>

FromStrErr(w) ==
    /\ ~ResponseWireResults[w].ok
    /\ last' = [op |-> "from_str_err", wire |-> w]
    /\ UNCHANGED <<res, input, result>>

NextWire ==
    \/ NextBuild
    \/ \E w \in ResponseWireInputs : FromStrOk(w)
    \/ \E w \in ResponseWireInputs : FromStrErr(w)

SpecWire == InitBuild /\ [][NextWire]_vars

(***************************************************************************)
(* Decoding a request and classifying it.  The input is fixed at the start *)
(* of a behaviour; from_str decodes it once; locale() and intent() are     *)
(* called on the Request it returned, is_english() on the Locale that      *)
(* locale() returned.  An input is the full envelope (the envelope of      *)
(* tests::default_req with every optional member added) with a locale tag  *)
(* and an intent name put in, or with some of its members removed.         *)
(***************************************************************************)
FullEnvelope(locale, name) ==
    JObj([version |-> JStr("1.0"),
          session |-> JObj(
              [new |-> JBool(TRUE),
               sessionId |-> JStr("amzn1.echo-api.session.abc123"),
               attributes |-> JObj([k1 |-> JStr("a")]),
               application |-> JObj([applicationId |-> JStr("amzn1.ask.skill.myappid")]),
               user |-> JObj([userId |-> JStr("amzn1.ask.account.theuserid"),
                              accessToken |-> JStr("token")])]),
          context |-> JObj(
              [System |-> JObj(
                   [application |->
                        JObj([applicationId |-> JStr("amzn1.ask.skill.myappid")]),
                    user |-> JObj([userId |-> JStr("amzn1.ask.account.theuserid")]),
                    device |-> JObj([deviceId |-> JStr("amzn1.ask.device.superfakedevice"),
                                     supportedInterfaces |-> JObj(<< >>)]),
                    apiEndpoint |-> JStr("https://api.amazonalexa.com"),
                    apiAccessToken |-> JStr("53kr14t.k3y.d4t4-otherstuff")]),
               AudioPlayer |-> JObj([token |-> JStr("t"),
                                     offsetInMilliseconds |-> JNum(0),
                                     playerActivity |-> JStr("IDLE")]),
               Viewport |-> JObj([shape |-> JStr("RECTANGLE")])]),
          request |-> JObj(
              [type |-> JStr("IntentRequest"),
               requestId |-> JStr("amzn1.echo-api.request.b8b49fde"),
               timestamp |-> JStr("2018-12-03T00:33:58Z"),
               locale |-> JStr(locale),
               intent |-> JObj(
                   [name |-> JStr(name),
                    confirmationStatus |-> JStr("NONE"),
                    slots |-> JObj(
                        [s1 |-> JObj(
                             [name |-> JStr("s1"),
                              value |-> JStr("v"),
                              confirmationStatus |-> JStr("NONE"),
                              resolutions |-> JObj(
                                  [resolutionsPerAuthority |-> JArr(
                                       <<JObj([authority |-> JStr("auth"),
                                               status |-> JObj([code |-> JStr("OK")]),
                                               values |-> JArr(
                                                   <<JObj([name |-> JStr("n"),
                                                           id |-> JStr("i")])>>)])>>)])])])]),
               reason |-> JStr("USER_INITIATED"),
               dialogState |-> JStr("STARTED")])])

\* A path names a member of the envelope: the member names from the top, with
\* "[1]" for the first element of an array.
RECURSIVE JGet(_, _)
JGet(j, p) ==
    IF Len(p) = 0 THEN Some(j)
    ELSE IF j.t = "obj"
    THEN IF p[1] \in DOMAIN j.o THEN JGet(j.o[p[1]], Tail(p)) ELSE None
    ELSE IF j.t = "arr" /\ p[1] = "[1]" /\ Len(j.a) >= 1
    THEN JGet(j.a[1], Tail(p))
    ELSE None

\* j without the member at path p (j itself when it has no such member)
RECURSIVE JRemove(_, _)
JRemove(j, p) ==
    IF Len(p) = 0 THEN j
    ELSE IF j.t = "obj"
    THEN IF p[1] \notin DOMAIN j.o THEN j
         ELSE IF Len(p) = 1 THEN JDel(j, p[1])
         ELSE JSet(j, p[1], JRemove(j.o[p[1]], Tail(p)))
    ELSE IF j.t = "arr" /\ p[1] = "[1]" /\ Len(j.a) >= 1 /\ Len(p) > 1
    THEN JArr([j.a EXCEPT ![1] = JRemove(j.a[1], Tail(p))])
    ELSE j

RECURSIVE JRemoveAll(_, _)
JRemoveAll(j, P) ==
    IF P = {} THEN j
    ELSE LET p == CHOOSE x \in P : TRUE IN JRemoveAll(JRemove(j, p), P \ {p})

\* the members whose struct field is not an Option, by struct
RequiredMembers ==
    LET session == <<"session">>
        request == <<"request">>
        intent == <<"request", "intent">>
        slot == <<"request", "intent", "slots", "s1">>
        authority == slot \o <<"resolutions", "resolutionsPerAuthority", "[1]">>
        value == authority \o <<"values", "[1]">>
        system == <<"context", "System">>
        player == <<"context", "AudioPlayer">>
    IN {<<"version">>, <<"request">>, <<"context">>}
       \cup {session \o <<m>> : m \in {"new", "sessionId", "application", "user"}}
       \cup {session \o <<"application", "applicationId">>, session \o <<"user", "userId">>}
       \cup {request \o <<m>> : m \in {"type", "requestId", "timestamp", "locale"}}
       \cup {intent \o <<m>> : m \in {"name", "confirmationStatus"}}
       \cup {slot \o <<m>> : m \in {"name", "value", "confirmationStatus"}}
       \cup {slot \o <<"resolutions", "resolutionsPerAuthority">>}
       \cup {authority \o <<m>> : m \in {"authority", "status", "values"}}
       \cup {authority \o <<"status", "code">>}
       \cup {value \o <<m>> : m \in {"name", "id"}}
       \cup {<<"context", "System">>, system \o <<"apiAccessToken">>,
             system \o <<"device", "deviceId">>,
             system \o <<"application", "applicationId">>}
       \cup {player \o <<m>> : m \in {"token", "offsetInMilliseconds", "playerActivity"}}

\* the members whose struct field is an Option
OptionalMembers ==
    {<<"session">>, <<"session", "attributes">>, <<"session", "user", "accessToken">>,
     <<"request", "intent">>, <<"request", "reason">>, <<"request", "dialogState">>,
     <<"request", "intent", "slots">>,
     <<"request", "intent", "slots", "s1", "resolutions">>,
     <<"context", "AudioPlayer">>, <<"context", "System", "device">>,
     <<"context", "System", "application">>}

\* members no struct names, and the one entry of the slot map
OtherMembers ==
    {<<"context", "Viewport">>, <<"context", "System", "apiEndpoint">>,
     <<"context", "System", "user">>,
     <<"context", "System", "device", "supportedInterfaces">>,
     <<"request", "intent", "slots", "s1">>}

RemovableMembers == RequiredMembers \cup OptionalMembers \cup OtherMembers

\* the sets of at most n removable members
RECURSIVE MemberSets(_)
MemberSets(n) ==
    IF n = 0 THEN {{}}
    ELSE LET smaller == MemberSets(n - 1)
         IN smaller \cup {P \cup {p} : P \in smaller, p \in RemovableMembers}

LocaleTags == {"it-IT", "de-DE", "en-AU", "en-CA", "en-GB", "en-IN", "en-US", "ja-JP"}

LocaleStrings ==
    LocaleTags \cup {"", "en-us", "EN-US", "en_US", "en", " en-US", "en-US ", "fr-FR", "it-it"}

BuiltinIntentNames ==
    {"AMAZON.HelpIntent", "AMAZON.CancelIntent", "AMAZON.FallbackIntent",
     "AMAZON.LoopOffIntent", "AMAZON.LoopOnIntent", "AMAZON.NextIntent",
     "AMAZON.NoIntent", "AMAZON.PauseIntent", "AMAZON.PreviousIntent",
     "AMAZON.RepeatIntent", "AMAZON.ResumeIntent", "AMAZON.SelectIntent",
     "AMAZON.ShuffleOffIntent", "AMAZON.ShuffleOnIntent", "AMAZON.StartOverIntent",
     "AMAZON.StopIntent", "AMAZON.YesIntent"}

IntentNames ==
    BuiltinIntentNames
    \cup {"hello", "", "amazon.helpintent", "AMAZON.HELPINTENT", " AMAZON.HelpIntent",
          "AMAZON.HelpIntent ", "HelpIntent", "AMAZON.Help", "Help"}

RequestInputs ==
    {FullEnvelope(l, "hello") : l \in LocaleStrings}
    \cup {FullEnvelope("en-US", n) : n \in IntentNames}
    \cup {JRemoveAll(FullEnvelope("en-US", "hello"), P) : P \in MemberSets(MaxMissing)}

InitRequest ==
    /\ input \in RequestInputs
    /\ result = None
    /\ res = Response_end
    /\ last = [op |-> "start"]

RequestFromStr ==
    /\ ~result.some
    /\ result' = Some(Request_deserialize(input))
    /\ last' = [op |-> "from_str"]
    /\ UNCHANGED <<res, input>>

Locale ==
    /\ result.some
    /\ result.val.ok
    /\ last' = [op |-> "locale", ret |-> Request_locale(result.val.val)]
    /\ UNCHANGED <<res, input, result>>

IsEnglish ==
    /\ last.op = "locale"
    /\ last' = [op |-> "is_english", self |-> last.ret,
                ret |-> Locale_is_english(last.ret)]
    /\ UNCHANGED <<res, input, result>>

Intent ==
    /\ result.some
    /\ result.val.ok
    /\ last' = [op |-> "intent", ret |-> Request_intent(result.val.val)]
    /\ UNCHANGED <<res, input, result>>

NextRequest == RequestFromStr \/ Locale \/ IsEnglish \/ Intent

SpecRequest == InitRequest /\ [][NextRequest]_vars

(***************************************************************************)
(* Properties of the Response builder.                                     *)
(***************************************************************************)
\* the session attributes of r as a map (the empty map when there is none)
Attrs(r) == IF r.session_attributes.some THEN r.session_attributes.val ELSE HashMap_new

BuilderOps == {"speech", "card", "add_attribute", "add_directive"}

C1_State ==
    /\ last.op = "add_attribute" =>
          /\ res.session_attributes.some
          /\ last.key \in DOMAIN res.session_attributes.val
          /\ res.session_attributes.val[last.key] = last.val
    /\ DOMAIN Attrs(res) # {} =>
          /\ Has(Response_serialize(res), "sessionAttributes")
          /\ StringMap_deserialize(Response_serialize(res).o["sessionAttributes"])
                = Ok(Attrs(res))

C1_Step ==
    /\ last'.op = "add_attribute" =>
          \A k \in AttrKeys \ {last'.key} :
              /\ k \in DOMAIN Attrs(res') <=> k \in DOMAIN Attrs(res)
              /\ k \in DOMAIN Attrs(res) => Attrs(res')[k] = Attrs(res)[k]
    /\ last'.op \in BuilderOps \ {"add_attribute"} =>
          res'.session_attributes = res.session_attributes
    /\ DOMAIN Attrs(res) # {} => DOMAIN Attrs(res') # {}

\* C1: after add_attribute(k, v) the session attributes hold one entry for k,
\* with value v; add_attribute leaves the entry of every other key as it was and
\* no other builder call touches the mapping, so each key carries the value of
\* the most recent add_attribute for it; once the mapping is non-empty it stays
\* non-empty and the encoding carries it under sessionAttributes.
C1_AttributeUpsert == [](C1_State) /\ [][C1_Step]_vars

\* add_attribute has just overwritten an earlier, different value of its key,
\* in a mapping that holds another key as well
C1_Witness ==
    /\ last.op = "add_attribute"
    /\ last.old.some
    /\ last.old.val # last.val
    /\ Cardinality(DOMAIN Attrs(res)) = 2

C2_State ==
    LET ds == res.body.directives
        body == Response_serialize(res).o["response"]
    IN /\ \A d1, d2 \in DirectiveInputs :
              Directive_serialize(d1) = Directive_serialize(d2) => d1 = d2
       /\ Len(ds) > 0 =>
              /\ Has(body, "directives")
              /\ body.o["directives"].t = "arr"
              /\ Len(body.o["directives"].a) = Len(ds)
              /\ \A i \in 1..Len(ds) :
                     body.o["directives"].a[i] = Directive_serialize(ds[i])

C2_Step ==
    /\ last'.op = "add_directive" =>
          res'.body.directives = Append(res.body.directives, last'.directive)
    /\ last'.op \in BuilderOps \ {"add_directive"} =>
          res'.body.directives = res.body.directives

\* C2: add_directive appends its argument at the end of the directive sequence
\* and no other builder call changes the sequence, so the sequence is the
\* arguments of the add_directive calls in call order; the directives array of
\* the encoding holds the encodings of these directives, in the same order.
C2_DirectiveOrder == [](C2_State) /\ [][C2_Step]_vars

\* two different directives were added, and other builder calls came after
C2_Witness ==
    /\ Len(res.body.directives) = 2
    /\ res.body.directives[1] # res.body.directives[2]
    /\ last.op \in {"speech", "card", "add_attribute"}
    /\ res.session_attributes.some

C3_State ==
    \A s \in SpeechInputs, c \in CardInputs :
        Response_card(Response_speech(res, s), c)
            = Response_speech(Response_card(res, c), s)

C3_Step ==
    /\ last'.op = "speech" =>
          /\ res'.body.output_speech = Some(last'.speech)
          /\ res'.body.card = res.body.card
    /\ last'.op = "card" =>
          /\ res'.body.card = Some(last'.card)
          /\ res'.body.output_speech = res.body.output_speech
    /\ last'.op \in {"speech", "card"} =>
          /\ res'.version = res.version
          /\ res'.session_attributes = res.session_attributes
          /\ res'.body.should_end_session = res.body.should_end_session
          /\ res'.body.reprompt = res.body.reprompt
          /\ res'.body.directives = res.body.directives
    /\ last'.op \in {"add_attribute", "add_directive"} =>
          /\ res'.body.output_speech = res.body.output_speech
          /\ res'.body.card = res.body.card

\* C3: speech(s) sets the output speech to s and card(c) sets the card to c,
\* whatever was set before; each leaves every other part of the Response as it
\* was; speech and card applied in either order give the same Response; and
\* add_attribute and add_directive leave both the speech and the card as they were.
C3_SpeechCardFrame == [](C3_State) /\ [][C3_Step]_vars

\* speech has just replaced an earlier speech, in a Response that holds a card,
\* session attributes and a directive
C3_Witness ==
    /\ last.op = "speech"
    /\ last.replaced
    /\ res.body.card.some
    /\ res.session_attributes.some
    /\ Len(res.body.directives) > 0

\* C4: Response::simple(title, text), and new_simple, yield should_end_session
\* Some(true), a card of type "Simple" with the title and with text as its
\* content and nothing else, plain-text speech of text, no session attributes and
\* no directives; the encoding has neither a sessionAttributes nor a directives key.
C4_Simple ==
    last.op \in {"simple", "new_simple"} =>
        LET card == res.body.card.val
            speech == res.body.output_speech.val
            enc == Response_serialize(res)
        IN /\ res.body.should_end_session = Some(TRUE)
           /\ res.body.card.some
           /\ card.card_type = "Simple"
           /\ card.title = Some(last.title)
           /\ card.content = Some(last.text)
           /\ ~card.text.some /\ ~card.image.some /\ ~card.permissions.some
           /\ res.body.output_speech.some
           /\ speech.speech_type = "PlainText"
           /\ speech.text = Some(last.text)
           /\ ~speech.ssml.some
           /\ ~res.session_attributes.some
           /\ res.body.directives = << >>
           /\ ~Has(enc, "sessionAttributes")
           /\ ~Has(enc.o["response"], "directives")

\* simple was called with a title that differs from the text
C4_Witness == last.op = "simple" /\ last.title # last.text

\* C5: the encoding has no sessionAttributes key when the session attributes are
\* absent or an empty mapping.
C5_OmittedWhenEmpty ==
    DOMAIN Attrs(res) = {} => ~Has(Response_serialize(res), "sessionAttributes")

\* exactly one of text and ssml is populated, the one the type names
SpeechValid(s) ==
    \/ s.speech_type = "PlainText" /\ s.text.some /\ ~s.ssml.some
    \/ s.speech_type = "SSML" /\ s.ssml.some /\ ~s.text.some

\* C6: the output speech of a Response built by the builder has exactly one of
\* text and ssml populated, matching its type; so have Speech::plain(s) and
\* Speech::ssml(s), and play_behavior keeps it so.
C6_SpeechVariant ==
    /\ res.body.output_speech.some => SpeechValid(res.body.output_speech.val)
    /\ res.body.reprompt.some => SpeechValid(res.body.reprompt.val.output_speech)
    /\ \A x \in Strings :
          /\ SpeechValid(Speech_plain(x))
          /\ Speech_plain(x).speech_type = "PlainText"
          /\ SpeechValid(Speech_ssml(x))
          /\ Speech_ssml(x).speech_type = "SSML"
          /\ \A b \in PlayBehaviors :
                /\ SpeechValid(Speech_play_behavior(Speech_plain(x), b))
                /\ SpeechValid(Speech_play_behavior(Speech_ssml(x), b))

\* the Response holds an SSML speech with a play behaviour, set earlier in the chain
C6_Witness ==
    /\ res.body.output_speech.some
    /\ res.body.output_speech.val.speech_type = "SSML"
    /\ res.body.output_speech.val.play_behavior.some
    /\ last.op = "add_directive"

(***************************************************************************)
(* Properties of the Request decoder and of the classifiers.               *)
(***************************************************************************)
\* every required member whose enclosing object is on the wire is on the wire
RequiredPresent(j) ==
    \A p \in RequiredMembers :
        JGet(j, SubSeq(p, 1, Len(p) - 1)).some => JGet(j, p).some

\* C7: decoding an envelope that lacks a required member (of the envelope, or
\* of an object of it that is present) returns an error and no Request; an
\* envelope that lacks only optional members is decoded, each missing optional
\* member read as None and the required members read as they are on the wire.
C7_RequiredOrError ==
    result.some =>
        /\ result.val.ok <=> RequiredPresent(input)
        /\ result.val.ok =>
              LET r == result.val.val
                  request == input.o["request"]
                  system == input.o["context"].o["System"]
              IN /\ r.version = input.o["version"].s
                 /\ r.body.reqtype = request.o["type"].s
                 /\ r.body.request_id = request.o["requestId"].s
                 /\ r.body.timestamp = request.o["timestamp"].s
                 /\ r.body.locale = request.o["locale"].s
                 /\ r.context.system.api_access_token = system.o["apiAccessToken"].s
                 /\ r.session.some <=> Has(input, "session")
                 /\ r.body.intent.some <=> Has(request, "intent")
                 /\ r.body.reason.some <=> Has(request, "reason")
                 /\ r.body.dialog_state.some <=> Has(request, "dialogState")
                 /\ r.context.audio_player.some <=> Has(input.o["context"], "AudioPlayer")
                 /\ r.context.system.device.some <=> Has(system, "device")
                 /\ r.context.system.application.some <=> Has(system, "application")
                 /\ r.session.some =>
                       /\ r.session.val.attributes.some
                             <=> Has(input.o["session"], "attributes")
                       /\ r.session.val.user.access_token.some
                             <=> Has(input.o["session"].o["user"], "accessToken")
                 /\ r.body.intent.some =>
                       r.body.intent.val.slots.some <=> Has(request.o["intent"], "slots")

\* the envelope that lacks only request.requestId was decoded, to an error
C7_Witness ==
    /\ result.some
    /\ ~result.val.ok
    /\ input = JRemove(FullEnvelope("en-US", "hello"), <<"request", "requestId">>)

BuiltinIntentTable ==
    {<<"AMAZON.HelpIntent", "Help">>, <<"AMAZON.CancelIntent", "Cancel">>,
     <<"AMAZON.FallbackIntent", "Fallback">>, <<"AMAZON.LoopOffIntent", "LoopOff">>,
     <<"AMAZON.LoopOnIntent", "LoopOn">>, <<"AMAZON.NextIntent", "Next">>,
     <<"AMAZON.NoIntent", "No">>, <<"AMAZON.PauseIntent", "Pause">>,
     <<"AMAZON.PreviousIntent", "Previous">>, <<"AMAZON.RepeatIntent", "Repeat">>,
     <<"AMAZON.ResumeIntent", "Resume">>, <<"AMAZON.SelectIntent", "Select">>,
     <<"AMAZON.ShuffleOffIntent", "ShuffleOff">>, <<"AMAZON.ShuffleOnIntent", "ShuffleOn">>,
     <<"AMAZON.StartOverIntent", "StartOver">>, <<"AMAZON.StopIntent", "Stop">>,
     <<"AMAZON.YesIntent", "Yes">>}

\* C8: intent() returns None for a request without an intent, the built-in
\* variant of the same name for each of the 17 built-in names, and for any other
\* name (one that differs by case or by surrounding whitespace too) the custom
\* variant holding the name as it is on the wire.
C8_IntentClassification ==
    last.op = "intent" =>
        LET request == input.o["request"]
        IN IF ~Has(request, "intent")
           THEN last.ret = IntentType("None")
           ELSE LET n == request.o["intent"].o["name"].s
                IN IF \E e \in BuiltinIntentTable : e[1] = n
                   THEN \A e \in BuiltinIntentTable :
                            e[1] = n => last.ret = IntentType(e[2])
                   ELSE last.ret = IntentType_User(n)

\* intent() returned the custom variant for a built-in name followed by a space
C8_Witness ==
    /\ last.op = "intent"
    /\ last.ret = IntentType_User("AMAZON.HelpIntent ")

LocaleTable ==
    {<<"it-IT", "Italian">>, <<"de-DE", "German">>, <<"en-AU", "AustralianEnglish">>,
     <<"en-CA", "CanadianEnglish">>, <<"en-GB", "BritishEnglish">>,
     <<"en-IN", "IndianEnglish">>, <<"en-US", "AmericanEnglish">>,
     <<"ja-JP", "Japanese">>}

\* l is what the table gives for the tag t
LocaleOfTag(t, l) ==
    IF \E e \in LocaleTable : e[1] = t
    THEN \A e \in LocaleTable : e[1] = t => l = e[2]
    ELSE l = "Unknown"

\* C9: the classification of a locale tag is the table's entry for the eight
\* listed tags and Unknown for every other string; locale() returns the
\* classification of the locale member of the decoded request.
C9_LocaleClassification ==
    /\ \A t \in LocaleStrings :
          /\ LocaleOfTag(t, Locale_from(t))
          /\ LocaleOfTag(t, Locale_from_String(t))
    /\ last.op = "locale" => LocaleOfTag(input.o["request"].o["locale"].s, last.ret)

\* locale() returned Unknown for a listed tag written in lower case
C9_Witness ==
    /\ last.op = "locale"
    /\ last.ret = "Unknown"
    /\ input.o["request"].o["locale"].s = "en-us"

EnglishLocales ==
    {"AmericanEnglish", "AustralianEnglish", "CanadianEnglish", "BritishEnglish",
     "IndianEnglish"}

EnglishTags == {"en-US", "en-AU", "en-CA", "en-GB", "en-IN"}

\* C10: is_english is true for exactly the five English locales; so for a raw
\* tag t, the classification of t is English exactly when t is one of en-US,
\* en-AU, en-CA, en-GB and en-IN.
C10_IsEnglish ==
    /\ \A l \in Locales : Locale_is_english(l) <=> l \in EnglishLocales
    /\ \A t \in LocaleStrings : Locale_is_english(Locale_from(t)) <=> t \in EnglishTags
    /\ last.op = "is_english" => (last.ret <=> last.self \in EnglishLocales)

\* is_english() returned true for the locale of the tag en-IN
C10_Witness ==
    /\ last.op = "is_english"
    /\ last.self = "IndianEnglish"
    /\ last.ret
    /\ input.o["request"].o["locale"].s = "en-IN"

(***************************************************************************)
(* Properties of the directive union on the wire.                          *)
(***************************************************************************)
\* the encoding of a directive that has no empty member, and that object with
\* its tag changed, removed or not a string
DirectiveWireInputs ==
    LET full == Response_serialize(FullResponse).o["response"].o["directives"].a[1]
    IN {full,
        JSet(full, "type", JStr("Unknown")),
        JSet(full, "type", JStr("alexa.presentation.html.start")),
        JSet(full, "type", JStr("AlexaPresentationHTMLStartDirective")),
        JSet(full, "type", JStr("")),
        JSet(full, "type", JNull),
        JDel(full, "type")}

\* the wire object w carries the tag of the sole variant
KnownTag(w) == Has(w, "type") /\ w.o["type"] = JStr("Alexa.Presentation.HTML.Start")

\* the directive objects of the response envelope w
WireDirectives(w) ==
    IF Has(w, "response") /\ Has(w.o["response"], "directives")
       /\ w.o["response"].o["directives"].t = "arr"
    THEN w.o["response"].o["directives"].a
    ELSE << >>

\* C11: the encoding of a directive carries the literal
\* "Alexa.Presentation.HTML.Start" under type; a directive object is decoded
\* to the variant only when its type member is that literal, and an object
\* whose type is another value, or missing, is a decode error: a response
\* envelope holding one is never decoded to a Response.
C11_DirectiveTag ==
    /\ \A d \in DirectiveInputs : KnownTag(Directive_serialize(d))
    /\ \A i \in 1..Len(res.body.directives) :
          KnownTag(Directive_serialize(res.body.directives[i]))
    /\ \A w \in DirectiveWireInputs :
          /\ Directive_deserialize(w).ok <=> KnownTag(w)
          /\ Directive_deserialize(w).ok =>
                Directive_deserialize(w).val.variant = "AlexaPresentationHTMLStartDirective"
    /\ last.op = "from_str" =>
          \A i \in 1..Len(WireDirectives(last.wire)) : KnownTag(WireDirectives(last.wire)[i])
    /\ (/\ last.op \in {"from_str", "from_str_err"}
        /\ \E i \in 1..Len(WireDirectives(last.wire)) :
               ~KnownTag(WireDirectives(last.wire)[i]))
          => last.op = "from_str_err"

\* from_str has just refused an envelope whose directive carries an unknown tag
C11_Witness ==
    /\ last.op = "from_str_err"
    /\ Len(WireDirectives(last.wire)) = 1
    /\ Has(WireDirectives(last.wire)[1], "type")
    /\ WireDirectives(last.wire)[1].o["type"] = JStr("Unknown")

(***************************************************************************)
(* Properties of the response envelope as a whole.                         *)
(***************************************************************************)
\* C12: the version of a Response is "1.0" after Response::new(x) for every
\* x, after Response::simple, new_simple and Response::end, and in every
\* state a chain of speech, card, add_attribute and add_directive calls reaches.
C12_Version ==
    /\ res.version = "1.0"
    /\ Response_serialize(res).o["version"] = JStr("1.0")
    /\ \A x \in BoolOptions : Response_new(x).version = "1.0"
    /\ \A t \in Strings, x \in Strings :
          /\ Response_simple(t, x).version = "1.0"
          /\ Response_new_simple(t, x).version = "1.0"
    /\ Response_end.version = "1.0"

\* a chain from Response::new(None) in which each of the four builder calls
\* has written its part
C12_Witness ==
    /\ res.version = "1.0"
    /\ ~res.body.should_end_session.some
    /\ res.body.output_speech.some
    /\ res.body.card.some
    /\ res.session_attributes.some
    /\ Len(res.body.directives) > 0

\* C13: for every Response a chain of builder calls reaches, decoding its
\* encoded output succeeds and yields a Response equal to the original.
C13_RoundTrip ==
    Response_deserialize(Response_serialize(res)) = Ok(res)

====
